---- MODULE Spec2Model ----
(***************************************************************************)
(* Model of the sports-app API server: the in-process TTL response cache   *)
(* of src/src/server.ts (cacheGet, cacheSet) and the per-client follow     *)
(* state store of src/src/storage.ts (readDB, writeDB, getState,           *)
(* setTeamIds, addTeams, clearState).                                      *)
(***************************************************************************)
EXTENDS Integers, Sequences, FiniteSets, TLC

VARIABLES
    now,        \* Date.now(), in milliseconds
    cache,      \* const cache = new Map<string, CacheEntry>()
    lastSet,    \* history: per key, the arguments and time of the last cacheSet
    clast,      \* history: the cache call made last at this instant, its result
    file,       \* data/state_by_client.json: missing, or its text
    dirExists,  \* whether the data directory exists
    pc,         \* per client: the store operation in progress, past its readDB
    db,         \* per client: the local `db` of the operation in progress
    running,    \* the handler that holds the event loop, or None
    last,       \* history: the last completed store call and its result
    acked,      \* history: per client, the FollowState its last mutation computed
    calls,      \* per caller of get(): idle, or awaiting the upstream response
    glast,      \* history: the last step of a get() call and its outcome
    req,        \* the aggregating route handler in progress, at one of its awaits
    resp        \* history: the last response a follow-state route produced

cacheVars == <<now, cache, lastSet, clast>>
storeVars == <<file, dirExists, pc, db, running, last, acked>>
getVars == <<calls, glast>>
routeVars == <<req, resp>>
vars == <<now, cache, lastSet, clast, file, dirExists, pc, db, running, last, acked,
          calls, glast, req, resp>>

None == "none"
Null == "null"

(***************************************************************************)
(* Bounds                                                                  *)
(***************************************************************************)
MaxSec == 2     \* Date.now() is observed up to MaxSec whole seconds ...
MaxOff == 1     \* ... plus up to MaxOff milliseconds
MaxTtl == 1     \* ttlSeconds ranges over 0..MaxTtl

MaxIds == 3     \* setTeamIds is called with at most MaxIds ids
MaxTeams == 2   \* addTeams is called with at most MaxTeams team snapshots
MaxBody == 2    \* a request body carries at most MaxBody team ids

MsPerSec == 1000

Keys == {"u1", "u2"}
Values == {Null, "a"}      \* JSON null (falsy) and a JSON object
Ttls == 0..MaxTtl
Instants == {s * MsPerSec + e : s \in 0..MaxSec, e \in 0..MaxOff}

EmptyMap == [k \in {} |-> None]

\* history record of a key that no cacheSet has named yet
NeverSet == [value |-> Null, at |-> 0, ttl |-> 0, n |-> 0]

\* history record when no cache call was made at this instant yet
NoCall == [op |-> None, key |-> None, ret |-> Null, over |-> None, was |-> Null]

(***************************************************************************)
(* Response cache (server.ts)                                              *)
(***************************************************************************)
Without(m, key) == [k \in (DOMAIN m) \ {key} |-> m[k]]

Put(m, key, val) == [k \in (DOMAIN m) \cup {key} |-> IF k = key THEN val ELSE m[k]]

cacheGet_evictAtExpiry(c, key, t) ==
    IF key \notin DOMAIN c
    THEN [cache |-> c, ret |-> Null]
    ELSE IF t >= c[key].expiresAt
         THEN [cache |-> Without(c, key), ret |-> Null]
         ELSE [cache |-> c, ret |-> c[key].value]

\* cacheGet(key) evaluated at Date.now() = t: the map afterwards and the result
cacheGet(c, key, t) ==
    IF key \notin DOMAIN c
    THEN [cache |-> c, ret |-> Null]
    ELSE IF t > c[key].expiresAt
         THEN [cache |-> Without(c, key), ret |-> Null]
         ELSE [cache |-> c, ret |-> c[key].value]

cacheSet_sweep(c, key, value, ttlSeconds, t) ==
    LET live == {k \in DOMAIN c : t <= c[k].expiresAt}
        kept == [k \in live |-> c[k]]
    IN  Put(kept, key, [value |-> value, expiresAt |-> t + ttlSeconds * MsPerSec])

cacheSet_keepExpiry(c, key, value, ttlSeconds, t) ==
    IF key \in DOMAIN c /\ t <= c[key].expiresAt
    THEN Put(c, key, [value |-> value, expiresAt |-> c[key].expiresAt])
    ELSE Put(c, key, [value |-> value, expiresAt |-> t + ttlSeconds * MsPerSec])

\* cacheSet(key, value, ttlSeconds) evaluated at Date.now() = t
cacheSet(c, key, value, ttlSeconds, t) ==
    Put(c, key, [value |-> value, expiresAt |-> t + ttlSeconds * MsPerSec])

CacheGetCall(k) ==
    /\ cache' = cacheGet(cache, k, now).cache
    /\ clast' = [op |-> "cacheGet", key |-> k, ret |-> cacheGet(cache, k, now).ret,
                 over |-> None, was |-> Null]
    /\ UNCHANGED <<now, lastSet>>
    /\ UNCHANGED storeVars
    /\ UNCHANGED routeVars
    /\ UNCHANGED getVars

\* what a cacheSet of key k at this instant overwrites
Overwrites(k) ==
    IF lastSet[k].n = 0 THEN "nothing"
    ELSE IF k \notin DOMAIN cache THEN "evicted"
    ELSE IF now <= cache[k].expiresAt THEN "live"
    ELSE "expired"

CacheSetCall(k, v, ttl) ==
    /\ cache' = cacheSet(cache, k, v, ttl, now)
    /\ lastSet' = [lastSet EXCEPT ![k] =
                     [value |-> v, at |-> now, ttl |-> ttl,
                      n |-> IF lastSet[k].n = 0 THEN 1 ELSE 2]]
    /\ clast' = [op |-> "cacheSet", key |-> k, ret |-> Null,
                 over |-> Overwrites(k), was |-> lastSet[k].value]
    /\ UNCHANGED now
    /\ UNCHANGED storeVars
    /\ UNCHANGED routeVars
    /\ UNCHANGED getVars

\* time passes: Date.now() is next observed at a later instant
Tick ==
    /\ \E t \in Instants : t > now /\ now' = t
    /\ clast' = NoCall
    /\ UNCHANGED <<cache, lastSet>>
    /\ UNCHANGED storeVars
    /\ UNCHANGED routeVars
    /\ UNCHANGED getVars

\* the callers of get() that may be in progress at once
Callers == {"g1", "g2"}

\* upstream paths: the endpoint and the query string after it
LookupTeam == [php |-> "/lookupteam.php", q |-> "?id=1"]
EventsSeason == [php |-> "/eventsseason.php", q |-> "?id=1&s=2025"]
Paths == {LookupTeam, EventsSeason}
NoPath == [php |-> None, q |-> None]

\* the bodies the upstream returns: JSON null and two JSON objects
Bodies == {Null, "a", "b"}

\* const url = `${BASE}${path}`
Url(path) == [base |-> "BASE", php |-> path.php, q |-> path.q]

shouldCache_always(path) == TRUE

\* const shouldCache = !path.startsWith("/lookupteam.php")
shouldCache(path) == path.php # "/lookupteam.php"

\* if (cached): null, like every falsy value, counts as no cached value
Truthy(v) == v # Null

IdleCall == [pc |-> "idle", path |-> NoPath, ttl |-> 0, raced |-> FALSE]

NoGet == [caller |-> None, path |-> NoPath, event |-> None, ret |-> Null,
          ttl |-> 0, raced |-> FALSE, over |-> None]

\* get(path, ttlSeconds) up to its return of a cached value or to its await
\* of axios.get(url)
GetStart(s, path, ttl) ==
    /\ calls[s].pc = "idle"
    /\ LET url == Url(path)
           r == IF shouldCache(path) THEN cacheGet(cache, url, now)
                ELSE [cache |-> cache, ret |-> Null]
           racing == {o \in Callers \ {s} :
                        /\ calls[o].pc = "await" /\ calls[o].path = path
                        /\ shouldCache(path) /\ url \notin DOMAIN cache}
       IN  /\ cache' = r.cache
           /\ IF shouldCache(path) /\ Truthy(r.ret)
              THEN /\ glast' = [caller |-> s, path |-> path, event |-> "hit",
                                ret |-> r.ret, ttl |-> ttl, raced |-> FALSE, over |-> None]
                   /\ UNCHANGED calls
              ELSE /\ glast' = [caller |-> s, path |-> path, event |-> "sent",
                                ret |-> Null, ttl |-> ttl, raced |-> racing # {},
                                over |-> None]
                   /\ calls' = [o \in Callers |->
                                  IF o = s
                                  THEN [pc |-> "await", path |-> path, ttl |-> ttl,
                                        raced |-> racing # {}]
                                  ELSE IF o \in racing
                                       THEN [calls[o] EXCEPT !.raced = TRUE]
                                       ELSE calls[o]]
    /\ UNCHANGED <<now, lastSet, clast>>
    /\ UNCHANGED storeVars
    /\ UNCHANGED routeVars

\* the upstream answers caller s with a body: cacheSet unless bypassed, return
GetResume(s, body) ==
    /\ calls[s].pc = "await"
    /\ LET path == calls[s].path
           url == Url(path)
       IN  /\ cache' = IF shouldCache(path)
                        THEN cacheSet(cache, url, body, calls[s].ttl, now)
                        ELSE cache
           /\ glast' = [caller |-> s, path |-> path, event |-> "fetched", ret |-> body,
                        ttl |-> calls[s].ttl, raced |-> calls[s].raced,
                        over |-> IF url \in DOMAIN cache THEN cache[url].value ELSE None]
    /\ calls' = [calls EXCEPT ![s] = IdleCall]
    /\ UNCHANGED <<now, lastSet, clast>>
    /\ UNCHANGED storeVars
    /\ UNCHANGED routeVars

\* the upstream request of caller s fails or times out: get() throws
GetFail(s) ==
    /\ calls[s].pc = "await"
    /\ glast' = [caller |-> s, path |-> calls[s].path, event |-> "threw", ret |-> Null,
                 ttl |-> calls[s].ttl, raced |-> calls[s].raced, over |-> None]
    /\ calls' = [calls EXCEPT ![s] = IdleCall]
    /\ UNCHANGED <<now, cache, lastSet, clast>>
    /\ UNCHANGED storeVars
    /\ UNCHANGED routeVars

InitCache ==
    /\ now = 0
    /\ cache = EmptyMap
    /\ lastSet = [k \in Keys |-> NeverSet]
    /\ clast = NoCall
    /\ calls = [s \in Callers |-> IdleCall]
    /\ glast = NoGet

(***************************************************************************)
(* Follow-state store (storage.ts)                                         *)
(***************************************************************************)
Clients == {"c1", "c2"}

\* a JavaScript value used as a team id: a string, or a number that a caller
\* passed through unconverted; txt is its decimal text
Str(x) == [typ |-> "string", txt |-> x]
Num(x) == [typ |-> "number", txt |-> x]
RawIds == {Str("1"), Str("2"), Num("1")}

\* String(x)
String(x) == Str(x.txt)

Names == {"n1", "n2"}

\* the ids and snapshots the requests of client c carry
IdsOf(c) == IF c = "c1" THEN RawIds ELSE {Str("2")}
NamesOf(c) == IF c = "c1" THEN Names ELSE {"n1"}

\* StoredTeam: the id and one of the display fields
TeamsOf(c) == [id : IdsOf(c), name : NamesOf(c)]

SeqsUpTo(S, n) == UNION {[1..m -> S] : m \in 0..n}

\* { teamIds: [], teamsById: {} }
Default == [teamIds |-> <<>>, teamsById |-> EmptyMap]

Mutations == {"setTeamIds", "addTeams", "clearState"}

\* the state file: missing, empty, not JSON, or a JSON document
Missing == [kind |-> "missing", doc |-> EmptyMap]
EmptyFile == [kind |-> "empty", doc |-> EmptyMap]
Malformed == [kind |-> "malformed", doc |-> EmptyMap]

\* JSON.stringify(db, null, 2): numbers stay numbers, strings stay strings
JSONstringify(d) == [kind |-> "json", doc |-> d]

\* JSON.parse(raw): the document, or a SyntaxError
JSONparse(f) ==
    IF f.kind = "json" THEN [threw |-> FALSE, db |-> f.doc]
    ELSE [threw |-> TRUE, db |-> EmptyMap]

\* readDB(): {} for a missing or empty file, else JSON.parse of its text
readDB(f) ==
    IF f.kind = "missing" \/ f.kind = "empty"
    THEN [threw |-> FALSE, db |-> EmptyMap]
    ELSE JSONparse(f)

writeDB_idsOnly(d) ==
    JSONstringify([c \in DOMAIN d |-> [teamIds |-> d[c].teamIds, teamsById |-> EmptyMap]])

\* writeDB(db): the new content of the state file
writeDB(d) == JSONstringify(d)

\* db[clientId] ?? { teamIds: [], teamsById: {} }
StateOf(d, c) == IF c \in DOMAIN d THEN d[c] ELSE Default

\* xs.map(String)
MapString(xs) == [i \in 1..Len(xs) |-> String(xs[i])]

Dedupe_keepLast(xs) ==
    LET F[i \in 0..Len(xs)] ==
            IF i = 0 THEN <<>>
            ELSE Append(SelectSeq(F[i - 1], LAMBDA y : y # xs[i]), xs[i])
    IN  F[Len(xs)]

\* Array.from(new Set(xs)): the first occurrence of each element, in order
Dedupe(xs) ==
    LET F[i \in 0..Len(xs)] ==
            IF i = 0 THEN <<>>
            ELSE IF \E j \in 1..Len(F[i - 1]) : F[i - 1][j] = xs[i]
                 THEN F[i - 1]
                 ELSE Append(F[i - 1], xs[i])
    IN  F[Len(xs)]

\* getState(clientId), given the result of readDB()
getState(d, c) == StateOf(d, c)

setTeamIds_onlyOwn(d, c, ids) ==
    Put(EmptyMap, c, [teamIds |-> Dedupe(MapString(ids)),
                      teamsById |-> StateOf(d, c).teamsById])

\* setTeamIds(clientId, teamIds): the db that is written
setTeamIds(d, c, ids) ==
    Put(d, c, [teamIds |-> Dedupe(MapString(ids)),
               teamsById |-> StateOf(d, c).teamsById])

addTeams_keepFirst(d, c, teams) ==
    LET prev == StateOf(d, c)
        byId[i \in 0..Len(teams)] ==
            IF i = 0 THEN prev.teamsById
            ELSE IF String(teams[i].id).txt \in DOMAIN byId[i - 1]
                 THEN byId[i - 1]
                 ELSE Put(byId[i - 1], String(teams[i].id).txt, teams[i])
        ids == prev.teamIds \o [i \in 1..Len(teams) |-> teams[i].id]
    IN  Put(d, c, [teamIds |-> Dedupe(ids), teamsById |-> byId[Len(teams)]])

\* addTeams(clientId, teams): the db that is written; an object key is the
\* string form of the id
addTeams(d, c, teams) ==
    LET prev == StateOf(d, c)
        byId[i \in 0..Len(teams)] ==
            IF i = 0 THEN prev.teamsById
            ELSE Put(byId[i - 1], String(teams[i].id).txt, teams[i])
        ids == prev.teamIds \o [i \in 1..Len(teams) |-> teams[i].id]
    IN  Put(d, c, [teamIds |-> Dedupe(ids), teamsById |-> byId[Len(teams)]])

clearState_delete(d, c) == Without(d, c)

\* clearState(clientId): the db that is written
clearState(d, c) == Put(d, c, Default)

ReadYields_async == TRUE

\* whether a handler gives up the event loop between readDB and writeDB:
\* fs.readFileSync and fs.writeFileSync block, the handlers await nothing
ReadYields == FALSE

\* history record when no store call has completed since the last readDB
NoStoreCall ==
    [op |-> None, client |-> None, args |-> <<>>, threw |-> FALSE,
     ret |-> Default, preLen |-> 0, after |-> None, was |-> None]

Call(op, c, args, threw, ret, preLen, after, was) ==
    [op |-> op, client |-> c, args |-> args, threw |-> threw,
     ret |-> ret, preLen |-> preLen, after |-> after, was |-> was]

\* the state of client c in the single-client state machine, given the db
Class(d, c) ==
    IF c \notin DOMAIN d THEN "unseen"
    ELSE IF Len(d[c].teamIds) > 0 THEN "populated"
    ELSE "cleared"

\* ensureDataDir()
ensureDataDir == dirExists' = TRUE

\* a request handler runs getState(c) to its return
GetStateCall(c) ==
    /\ running = None
    /\ ensureDataDir
    /\ LET r == readDB(file)
       IN  last' = Call("getState", c, <<>>, r.threw,
                        IF r.threw THEN Default ELSE getState(r.db, c), 0,
                        IF last.client = c THEN last.op ELSE None, None)
    /\ UNCHANGED <<file, pc, db, running, acked>>
    /\ UNCHANGED cacheVars
    /\ UNCHANGED routeVars
    /\ UNCHANGED getVars

\* a request handler enters a mutating operation of client c: readDB()
ReadDBStep(c, op) ==
    /\ running = None
    /\ pc[c] = "idle"
    /\ ensureDataDir
    /\ LET r == readDB(file)
       IN  IF r.threw
           THEN /\ last' = Call(op, c, <<>>, TRUE, Default, 0, None, None)
                /\ UNCHANGED <<pc, db, running>>
           ELSE /\ last' = NoStoreCall
                /\ pc' = [pc EXCEPT ![c] = op]
                /\ db' = [db EXCEPT ![c] = r.db]
                /\ running' = IF ReadYields THEN None ELSE c
    /\ UNCHANGED <<file, acked>>
    /\ UNCHANGED cacheVars
    /\ UNCHANGED routeVars
    /\ UNCHANGED getVars

\* the operation of client c, args given, from its local db to writeDB(db)
WriteDBStep(c, op, args, newdb) ==
    /\ pc[c] = op
    /\ running \in {None, c}
    /\ ensureDataDir
    /\ file' = writeDB(newdb)
    /\ acked' = [acked EXCEPT ![c] = [has |-> TRUE, state |-> StateOf(newdb, c)]]
    /\ last' = Call(op, c, args, FALSE, Default,
                    Len(StateOf(db[c], c).teamIds), None, Class(db[c], c))
    /\ pc' = [pc EXCEPT ![c] = "idle"]
    /\ db' = [db EXCEPT ![c] = EmptyMap]
    /\ running' = None
    /\ UNCHANGED cacheVars
    /\ UNCHANGED routeVars
    /\ UNCHANGED getVars

SetTeamIdsCall(c, ids) == WriteDBStep(c, "setTeamIds", ids, setTeamIds(db[c], c, ids))

AddTeamsCall(c, teams) == WriteDBStep(c, "addTeams", teams, addTeams(db[c], c, teams))

ClearStateCall(c) == WriteDBStep(c, "clearState", <<>>, clearState(db[c], c))

InitStoreVars ==
    /\ pc = [c \in Clients |-> "idle"]
    /\ db = [c \in Clients |-> EmptyMap]
    /\ running = None
    /\ last = NoStoreCall
    /\ acked = [c \in Clients |-> [has |-> FALSE, state |-> Default]]

\* a fresh deployment: no data directory, no state file
InitStore ==
    /\ file = Missing
    /\ dirExists = FALSE
    /\ InitStoreVars

\* a deployment whose state file is absent, empty or damaged
InitStoreAnyFile ==
    /\ file \in {Missing, EmptyFile, Malformed}
    /\ dirExists = (file # Missing)
    /\ InitStoreVars

(***************************************************************************)
(* Follow-state routes (server.ts)                                         *)
(***************************************************************************)
SyncRoutes == {"POST /me/follows", "POST /me/follows/add", "POST /me/reset"}
AggRoutes == {"GET /me/follows", "GET /me/feed", "GET /me/schedule"}
FollowRoutes == SyncRoutes \cup AggRoutes

\* the X-Client-Id header of a request: a client id, or None when absent
Headers == Clients \cup {None}

\* getFollows(clientId): the followed ids of the client
getFollows(f, c) == getState(readDB(f).db, c).teamIds

\* setFollows(clientId, teamIds): the file afterwards
setFollows(f, c, ids) == writeDB(setTeamIds(readDB(f).db, c, ids))

\* clearFollows(clientId): the file afterwards
clearFollows(f, c) == writeDB(clearState(readDB(f).db, c))

NoReq == [route |-> None, client |-> None, ids |-> <<>>, i |-> 0, phase |-> None,
          items |-> <<>>, outs |-> <<>>]

NoResp == [route |-> None, header |-> None, status |-> "none", error |-> None,
           ids |-> <<>>, items |-> <<>>, outs |-> <<>>, store |-> FALSE]

Response(route, header, status, error, ids, items, outs, store) ==
    [route |-> route, header |-> header, status |-> status, error |-> error,
     ids |-> ids, items |-> items, outs |-> outs, store |-> store]

\* what follows `throw new Error("Missing X-Client-Id header")` in
\* requireClientId: the handler of /me/feed catches it and answers 500 with
\* the message; thrown in a synchronous handler it reaches the framework's
\* error handler (500); thrown in an async handler without try/catch the
\* promise rejects and the framework answers 500 or never answers
MissingHeaderOutcomes(route) ==
    IF route = "GET /me/feed" THEN {"500"}
    ELSE IF route \in SyncRoutes THEN {"500"}
    ELSE {"500", "none"}

\* a request body whose teamIds is not an array
NoArray == [array |-> FALSE, teamIds |-> <<>>]

\* a follow-state route is called without the X-Client-Id header
RouteWithoutClientId(route) ==
    /\ \E st \in MissingHeaderOutcomes(route) :
          resp' = Response(route, None, st, "Missing X-Client-Id header",
                           <<>>, <<>>, <<>>, FALSE)
    /\ UNCHANGED <<req, file, dirExists, pc, db, running, last, acked>>
    /\ UNCHANGED cacheVars
    /\ UNCHANGED getVars

\* POST /me/follows, POST /me/follows/add and POST /me/reset with the header:
\* body.array tells whether the body's teamIds is an array
SyncRoute(route, c, body) ==
    /\ route \in SyncRoutes
    /\ IF route = "POST /me/reset"
       THEN /\ body = NoArray
            /\ file' = clearFollows(file, c)
            /\ dirExists' = TRUE
            /\ resp' = Response(route, c, "200", None, <<>>, <<>>, <<>>, TRUE)
       ELSE IF ~body.array
       THEN /\ resp' = Response(route, c, "400", "Body must be { teamIds: string[] }",
                                <<>>, <<>>, <<>>, FALSE)
            /\ UNCHANGED <<file, dirExists>>
       ELSE LET given == IF route = "POST /me/follows" THEN MapString(body.teamIds)
                         ELSE getFollows(file, c) \o MapString(body.teamIds)
                f2 == setFollows(file, c, given)
            IN  /\ file' = f2
                /\ dirExists' = TRUE
                /\ resp' = Response(route, c, "200", None, getFollows(f2, c),
                                    <<>>, <<>>, TRUE)
    /\ UNCHANGED <<req, pc, db, running, last, acked>>
    /\ UNCHANGED cacheVars
    /\ UNCHANGED getVars

\* an entry of the aggregated response: the normalized team with its data,
\* or the placeholder { team: { id } } with empty data
Real(id) == [id |-> id, kind |-> "real"]
Placeholder(id) == [id |-> id, kind |-> "placeholder"]

\* GET /me/follows, /me/feed, /me/schedule with the header, up to the first
\* await: season tells whether the query names a season
AggStart(route, c, season) ==
    /\ route \in AggRoutes
    /\ req.route = None
    /\ dirExists' = IF route = "GET /me/schedule" /\ ~season THEN dirExists ELSE TRUE
    /\ LET ids == getFollows(file, c)
       IN  IF route = "GET /me/schedule" /\ ~season
           THEN /\ resp' = Response(route, c, "400", "Missing query param: season",
                                    <<>>, <<>>, <<>>, FALSE)
                /\ UNCHANGED req
           ELSE IF Len(ids) = 0
           THEN /\ resp' = Response(route, c, "200", None, ids, <<>>, <<>>, TRUE)
                /\ UNCHANGED req
           ELSE /\ req' = [route |-> route, client |-> c, ids |-> ids, i |-> 1,
                           phase |-> "lookupteam", items |-> <<>>, outs |-> <<>>]
                /\ UNCHANGED resp
    /\ UNCHANGED <<file, pc, db, running, last, acked>>
    /\ UNCHANGED cacheVars
    /\ UNCHANGED getVars

\* the handler goes on to the next followed team, or answers with the items
AggAdvance(items, outs) ==
    IF req.i = Len(req.ids)
    THEN /\ resp' = Response(req.route, req.client, "200", None, req.ids, items, outs, TRUE)
         /\ req' = NoReq
    ELSE /\ req' = [req EXCEPT !.i = req.i + 1, !.phase = "lookupteam",
                               !.items = items, !.outs = outs]
         /\ UNCHANGED resp

\* the await of get(`/lookupteam.php?id=...`) for the current team ends:
\* with a team, with no team in the body, or with get() throwing
AggLookup(outcome) ==
    /\ req.route # None
    /\ req.phase = "lookupteam"
    /\ LET id == req.ids[req.i]
       IN  CASE outcome = "team" ->
                  IF req.route = "GET /me/follows"
                  THEN AggAdvance(Append(req.items, Real(id)), Append(req.outs, "ok"))
                  ELSE /\ req' = [req EXCEPT !.phase = "eventsseason"]
                       /\ UNCHANGED resp
            [] outcome = "noteam" ->
                  IF req.route = "GET /me/follows"
                  THEN AggAdvance(req.items, Append(req.outs, "noteam"))
                  ELSE AggAdvance(Append(req.items, Placeholder(id)),
                                  Append(req.outs, "noteam"))
            [] outcome = "throws" ->
                  IF req.route = "GET /me/follows"
                  THEN AggAdvance(req.items, Append(req.outs, "failed"))
                  ELSE IF req.route = "GET /me/schedule"
                  THEN AggAdvance(Append(req.items, Placeholder(id)),
                                  Append(req.outs, "failed"))
                  ELSE /\ resp' = Response(req.route, req.client, "500", "upstream error",
                                           req.ids, <<>>, Append(req.outs, "failed"), TRUE)
                       /\ req' = NoReq
    /\ UNCHANGED <<file, dirExists, pc, db, running, last, acked>>
    /\ UNCHANGED cacheVars
    /\ UNCHANGED getVars

\* the await of get(`/eventsseason.php?...`) for the current team ends: with
\* the events, or with get() throwing
AggSeason(outcome) ==
    /\ req.route # None
    /\ req.phase = "eventsseason"
    /\ LET id == req.ids[req.i]
       IN  CASE outcome = "events" ->
                  AggAdvance(Append(req.items, Real(id)), Append(req.outs, "ok"))
            [] outcome = "throws" ->
                  IF req.route = "GET /me/schedule"
                  THEN AggAdvance(Append(req.items, Placeholder(id)),
                                  Append(req.outs, "mixed"))
                  ELSE /\ resp' = Response(req.route, req.client, "500", "upstream error",
                                           req.ids, <<>>, Append(req.outs, "mixed"), TRUE)
                       /\ req' = NoReq
    /\ UNCHANGED <<file, dirExists, pc, db, running, last, acked>>
    /\ UNCHANGED cacheVars
    /\ UNCHANGED getVars

InitRoutes ==
    /\ req = NoReq
    /\ resp = NoResp

Init == InitCache /\ InitStore /\ InitRoutes

NextCache ==
    \/ \E k \in Keys : CacheGetCall(k)
    \/ \E k \in Keys, v \in Values, ttl \in Ttls : CacheSetCall(k, v, ttl)
    \/ Tick

SpecCache == Init /\ [][NextCache]_vars

NextGet ==
    \/ \E s \in Callers, path \in Paths, ttl \in Ttls : GetStart(s, path, ttl)
    \/ \E s \in Callers, body \in Bodies : GetResume(s, body)
    \/ \E s \in Callers : GetFail(s)
    \/ Tick

SpecGet == Init /\ [][NextGet]_vars

\* the request bodies of client c: a teamIds array, or none
ReqBodies(c) ==
    {[array |-> TRUE, teamIds |-> ids] :
        ids \in SeqsUpTo({x \in IdsOf(c) : x.typ = "string"}, MaxBody)} \cup {NoArray}

NextRoutes ==
    \/ \E route \in FollowRoutes : RouteWithoutClientId(route)
    \/ \E route \in SyncRoutes, c \in Clients :
          \E body \in ReqBodies(c) : SyncRoute(route, c, body)
    \/ \E route \in AggRoutes, c \in Clients, season \in BOOLEAN : AggStart(route, c, season)
    \/ \E outcome \in {"team", "noteam", "throws"} : AggLookup(outcome)
    \/ \E outcome \in {"events", "throws"} : AggSeason(outcome)

SpecRoutes == Init /\ [][NextRoutes]_vars

Next ==
    \/ \E c \in Clients : GetStateCall(c)
    \/ \E c \in Clients, op \in Mutations : ReadDBStep(c, op)
    \/ \E c \in Clients : \E ids \in SeqsUpTo(IdsOf(c), MaxIds) : SetTeamIdsCall(c, ids)
    \/ \E c \in Clients : \E teams \in SeqsUpTo(TeamsOf(c), MaxTeams) : AddTeamsCall(c, teams)
    \/ \E c \in Clients : ClearStateCall(c)

Spec == Init /\ [][Next]_vars

InitAnyFile == InitCache /\ InitStoreAnyFile /\ InitRoutes

SpecAnyFile == InitAnyFile /\ [][Next]_vars

(***************************************************************************)
(* Response cache: properties                                              *)
(***************************************************************************)
\* the instant up to which the last cacheSet of key k keeps its value valid
Deadline(k) == lastSet[k].at + lastSet[k].ttl * MsPerSec

\* C1: a cacheGet(k) made after cacheSet(k, v, t) at time T, with no later
\* cacheSet(k), returns v when now <= T + t*1000 (the boundary included)
\* and absent when now > T + t*1000.
C1_TtlExpiry ==
    \A k \in Keys :
        (clast.op = "cacheGet" /\ clast.key = k /\ lastSet[k].n > 0)
            => IF now <= Deadline(k)
               THEN clast.ret = lastSet[k].value
               ELSE clast.ret = Null

\* C1 witness: a lookup at the boundary instant T + t*1000, one second after
\* the set, still returns the value
C1_Witness ==
    \E k \in Keys :
        /\ clast.op = "cacheGet" /\ clast.key = k
        /\ lastSet[k].n > 0 /\ lastSet[k].ttl > 0
        /\ now = Deadline(k)
        /\ clast.ret = "a"

\* C9: a key leaves the cache map only in a cacheGet of that key made after
\* its expiresAt, which returns absent; a cacheGet of a key that is not in
\* the map returns absent and leaves it out; no other step removes a key.
C9_OnlyLazyEviction ==
    [][\A k \in Keys :
        /\ (k \in DOMAIN cache /\ k \notin DOMAIN cache')
              => /\ clast'.op = "cacheGet" /\ clast'.key = k
                 /\ now' = now
                 /\ now > cache[k].expiresAt
                 /\ clast'.ret = Null
        /\ (clast'.op = "cacheGet" /\ clast'.key = k /\ now' = now
              /\ k \in DOMAIN cache /\ now > cache[k].expiresAt)
              => (k \notin DOMAIN cache' /\ clast'.ret = Null)
        /\ (clast'.op = "cacheGet" /\ clast'.key = k /\ k \notin DOMAIN cache)
              => (k \notin DOMAIN cache' /\ clast'.ret = Null)
    ]_vars

\* C9 witness: an expired entry was evicted by a lookup of its own key while
\* another expired entry, not looked up, is still in the map
C9_Witness ==
    \E k \in Keys, o \in Keys :
        /\ k # o
        /\ clast.op = "cacheGet" /\ clast.key = k /\ clast.ret = Null
        /\ lastSet[k].n > 0 /\ now > Deadline(k) /\ k \notin DOMAIN cache
        /\ o \in DOMAIN cache /\ now > cache[o].expiresAt

\* C10: after a second (or later) cacheSet(k, v2, t2) made at time T2 the
\* entry of k holds v2 and expiresAt = T2 + t2*1000 whatever it replaced,
\* and a cacheGet(k) up to that instant returns v2.
C10_Overwrite ==
    \A k \in Keys :
        lastSet[k].n = 2 =>
            /\ (clast.op = "cacheSet" /\ clast.key = k) => k \in DOMAIN cache
            /\ k \in DOMAIN cache
                  => /\ cache[k].value = lastSet[k].value
                     /\ cache[k].expiresAt = Deadline(k)
            /\ (clast.op = "cacheGet" /\ clast.key = k /\ now <= Deadline(k))
                  => clast.ret = lastSet[k].value

\* C10 witness: a cacheSet has just replaced a live entry that held another
\* value and a later expiry
C10_Witness ==
    \E k \in Keys :
        /\ clast.op = "cacheSet" /\ clast.key = k
        /\ lastSet[k].n = 2 /\ clast.over = "live"
        /\ clast.was # lastSet[k].value
        /\ lastSet[k].value = "a"
        /\ lastSet[k].at > 0 /\ lastSet[k].ttl = 0
        /\ cache[k].expiresAt = now

(***************************************************************************)
(* Follow-state store: properties                                          *)
(***************************************************************************)
\* the FollowState of client c that a fresh reader of file content f obtains
FreshIn(f, c) == StateOf(readDB(f).db, c)

\* the elements of a sequence
Elems(xs) == {xs[i] : i \in 1..Len(xs)}

\* the index of the first occurrence of x in xs
FirstAt(xs, x) == CHOOSE i \in 1..Len(xs) : xs[i] = x /\ \A j \in 1..(i - 1) : xs[j] # x

\* the index of the last team of ts stored under object key k
LastAt(ts, k) ==
    CHOOSE i \in 1..Len(ts) :
        /\ String(ts[i].id).txt = k
        /\ \A j \in (i + 1)..Len(ts) : String(ts[j].id).txt # k

\* xs has no duplicates and lists its elements in the order in which they
\* first occur in src
FirstOccurrenceOrder(xs, src) ==
    \A i, j \in 1..Len(xs) :
        i < j => (xs[i] # xs[j] /\ FirstAt(src, xs[i]) < FirstAt(src, xs[j]))

\* C2: a completed setTeamIds(c, ids) leaves teamIds of c equal to the ids
\* converted to strings, without duplicates, in order of first occurrence,
\* with nothing of the previous teamIds, and teamsById of c as it was.
C2_SetTeamIds ==
    [][\A c \in Clients :
        (pc[c] = "setTeamIds" /\ pc'[c] = "idle") =>
            LET ids == last'.args
                strs == [i \in 1..Len(ids) |-> String(ids[i])]
                old == FreshIn(file, c)
                new == FreshIn(file', c)
            IN  /\ \A i \in 1..Len(new.teamIds) : new.teamIds[i].typ = "string"
                /\ Elems(new.teamIds) = Elems(strs)
                /\ FirstOccurrenceOrder(new.teamIds, strs)
                /\ new.teamsById = old.teamsById
    ]_vars

\* C2 witness: setTeamIds(c, [1, "1", "2"]) left teamIds = ["1", "2"] and
\* kept a snapshot in teamsById
C2_Witness ==
    \E c \in Clients :
        /\ last.op = "setTeamIds" /\ last.client = c
        /\ last.args = <<Num("1"), Str("1"), Str("2")>>
        /\ last.preLen > 0
        /\ FreshIn(file, c).teamIds = <<Str("1"), Str("2")>>
        /\ DOMAIN FreshIn(file, c).teamsById # {}

\* C3: a completed addTeams(c, teams) leaves teamIds of c equal to the prior
\* teamIds followed by the given ids that were not present, in order of first
\* occurrence, and teamsById equal to the prior mapping with every given
\* snapshot stored under its id, the last one given for an id winning; when
\* every given id was already followed teamIds is unchanged.
C3_AddTeams ==
    [][\A c \in Clients :
        (pc[c] = "addTeams" /\ pc'[c] = "idle") =>
            LET teams == last'.args
                given == [i \in 1..Len(teams) |-> teams[i].id]
                keys == {String(teams[i].id).txt : i \in 1..Len(teams)}
                old == FreshIn(file, c)
                new == FreshIn(file', c)
                n == Len(old.teamIds)
                tail == SubSeq(new.teamIds, n + 1, Len(new.teamIds))
            IN  /\ Len(new.teamIds) >= n
                /\ SubSeq(new.teamIds, 1, n) = old.teamIds
                /\ Elems(tail) = Elems(given) \ Elems(old.teamIds)
                /\ FirstOccurrenceOrder(tail, given)
                /\ DOMAIN new.teamsById = DOMAIN old.teamsById \cup keys
                /\ \A k \in DOMAIN new.teamsById :
                       new.teamsById[k] = IF k \in keys
                                          THEN teams[LastAt(teams, k)]
                                          ELSE old.teamsById[k]
                /\ Elems(given) \subseteq Elems(old.teamIds)
                       => new.teamIds = old.teamIds
    ]_vars

\* C3 witness: addTeams re-added the first of two followed teams, twice in
\* one call, and the later snapshot is stored; teamIds kept length and order
C3_Witness ==
    \E c \in Clients :
        /\ last.op = "addTeams" /\ last.client = c
        /\ last.args = <<[id |-> Str("1"), name |-> "n1"], [id |-> Str("1"), name |-> "n2"]>>
        /\ last.preLen = 2
        /\ FreshIn(file, c).teamIds = <<Str("1"), Str("2")>>
        /\ FreshIn(file, c).teamsById["1"].name = "n2"

\* C4: right after a setTeamIds or addTeams on client c every key of
\* teamsById of c is the string form of an entry of teamIds of c.
C4_KeysFollowed ==
    (last.op \in {"setTeamIds", "addTeams"} /\ ~last.threw) =>
        LET st == FreshIn(file, last.client)
        IN  \A k \in DOMAIN st.teamsById :
                \E i \in 1..Len(st.teamIds) : String(st.teamIds[i]).txt = k

\* the empty FollowState
IsEmptyState(st) == Len(st.teamIds) = 0 /\ DOMAIN st.teamsById = {}

\* C5: getState(c) returns the empty state without an error for a client
\* that is not in the file and for a client right after clearState(c);
\* clearState(c) leaves the key c in the file with empty contents; getState
\* does not change the file.
C5_DefaultState ==
    [][\A c \in Clients :
        /\ (last'.op = "getState" /\ last'.client = c)
              => /\ file' = file
                 /\ (c \notin DOMAIN readDB(file).db \/ (last.op = "clearState" /\ last.client = c))
                       => (~last'.threw /\ IsEmptyState(last'.ret))
        /\ (pc[c] = "clearState" /\ pc'[c] = "idle")
              => /\ file'.kind = "json"
                 /\ c \in DOMAIN file'.doc
                 /\ IsEmptyState(file'.doc[c])
    ]_vars

\* C5 witness: getState(c) right after clearState(c) returned the empty
\* state and c is a key of the file
C5_Witness ==
    \E c \in Clients :
        /\ last.op = "getState" /\ last.client = c /\ last.after = "clearState"
        /\ ~last.threw /\ IsEmptyState(last.ret)
        /\ file.kind = "json" /\ c \in DOMAIN file.doc

LostUpdate == \E a \in Clients : acked[a].has /\ FreshIn(file, a) # acked[a].state

\* C7 (as stated): while a mutating operation of client a is between its
\* read and its write of the file, a mutating operation of another client b
\* can read the file.
C7_CanInterleave ==
    \A a, b \in Clients :
        (a # b /\ pc[a] # "idle" /\ pc[b] = "idle") => ENABLED ReadDBStep(b, "setTeamIds")

\* C7 (amended): at most one store operation is between its read and its
\* write, and no completed mutation of any client is missing from the file.
C7_NoLostUpdate ==
    /\ Cardinality({c \in Clients : pc[c] # "idle"}) <= 1
    /\ ~LostUpdate

\* C7 witness: both clients have mutated, the last mutation was another
\* client's, and the first client's followed teams are still in the file
C7_Witness ==
    \E a, b \in Clients :
        /\ a # b
        /\ acked[a].has /\ Len(acked[a].state.teamIds) = 2
        /\ last.op \in Mutations /\ last.client = b
        /\ Len(acked[b].state.teamIds) = 1
        /\ FreshIn(file, a) = acked[a].state

\* C8: whatever the state file holds, a store operation completes without
\* raising an error and treats an unreadable file as the empty mapping.
C8_DefensiveRead ==
    /\ ~last.threw
    /\ (last.op = "getState" /\ file.kind # "json") => IsEmptyState(last.ret)

\* C13 (as stated): every completed setTeamIds or addTeams leaves the client
\* populated and every completed clearState leaves it cleared.
C13_ListedTransitions ==
    [][\A c \in Clients :
        (pc[c] # "idle" /\ pc'[c] = "idle") =>
            /\ last'.op \in {"setTeamIds", "addTeams"}
                  => Class(readDB(file').db, c) = "populated"
            /\ last'.op = "clearState" => Class(readDB(file').db, c) = "cleared"
    ]_vars

\* C13 (amended): a completed setTeamIds or addTeams with at least one id
\* leaves the client populated; clearState, and setTeamIds with no ids,
\* leave it cleared; addTeams with no teams leaves a populated client
\* populated and any other client cleared; no operation makes a client
\* unseen, and a cleared client whose handler may run can start a set/add.
C13_Transitions ==
    [][\A c \in Clients :
        /\ (pc[c] # "idle" /\ pc'[c] = "idle") =>
            LET from == Class(readDB(file).db, c)
                to == Class(readDB(file').db, c)
                n == Len(last'.args)
            IN  /\ (last'.op \in {"setTeamIds", "addTeams"} /\ n > 0) => to = "populated"
                /\ last'.op = "clearState" => to = "cleared"
                /\ (last'.op = "setTeamIds" /\ n = 0) => to = "cleared"
                /\ (last'.op = "addTeams" /\ n = 0)
                      => to = (IF from = "populated" THEN "populated" ELSE "cleared")
        /\ Class(readDB(file).db, c) # "unseen" => Class(readDB(file').db, c) # "unseen"
        /\ (Class(readDB(file).db, c) = "cleared" /\ running = None /\ pc[c] = "idle")
              => (ENABLED ReadDBStep(c, "setTeamIds") /\ ENABLED ReadDBStep(c, "addTeams"))
    ]_vars

\* C13 witness: a cleared client was populated again by an addTeams
C13_Witness ==
    \E c \in Clients :
        /\ last.op = "addTeams" /\ last.client = c /\ last.was = "cleared"
        /\ Class(readDB(file).db, c) = "populated"

\* C16: in the file no client's teamIds holds two entries with the same
\* string form.
C16_NoDuplicateIds ==
    \A c \in DOMAIN readDB(file).db :
        LET ids == readDB(file).db[c].teamIds
        IN  \A i, j \in 1..Len(ids) : i < j => String(ids[i]) # String(ids[j])

\* C18: a completed setTeamIds, addTeams or clearState of client a leaves
\* every other client's presence in the file, teamIds and teamsById as they
\* were, and getState leaves the file as it was.
C18_Frame ==
    [][/\ \A a \in Clients :
            (pc[a] # "idle" /\ pc'[a] = "idle") =>
                \A b \in Clients \ {a} :
                    /\ (b \in DOMAIN readDB(file').db) = (b \in DOMAIN readDB(file).db)
                    /\ FreshIn(file', b).teamIds = FreshIn(file, b).teamIds
                    /\ FreshIn(file', b).teamsById = FreshIn(file, b).teamsById
       /\ (last'.op = "getState" /\ \A c \in Clients : pc'[c] = pc[c])
            => \A b \in Clients :
                    /\ (b \in DOMAIN readDB(file').db) = (b \in DOMAIN readDB(file).db)
                    /\ FreshIn(file', b) = FreshIn(file, b)
    ]_vars

\* C18 witness: client c1 has just replaced its ids while c2, which follows
\* a team and holds its snapshot, is in the file
C18_Witness ==
    /\ last.op = "setTeamIds" /\ last.client = "c1" /\ Len(last.args) > 0
    /\ "c2" \in DOMAIN readDB(file).db
    /\ FreshIn(file, "c2").teamIds = <<Str("2")>>
    /\ DOMAIN FreshIn(file, "c2").teamsById = {"2"}

(***************************************************************************)
(* get(): properties                                                       *)
(***************************************************************************)
\* this step is caller s entering get(): it returns a cached value or awaits
StartsGet(s) ==
    /\ calls[s].pc = "idle" /\ now' = now
    /\ glast'.caller = s /\ glast'.event \in {"hit", "sent"}

\* this step is the upstream answering caller s with a body
ResumesGet(s) ==
    /\ calls[s].pc = "await" /\ calls'[s].pc = "idle"
    /\ glast'.caller = s /\ glast'.event = "fetched"

\* the cache holds for the url an entry that has not expired
Live(url) == url \in DOMAIN cache /\ now <= cache[url].expiresAt

\* C11: a get() of a /lookupteam.php path always issues the upstream request,
\* never returns from the cache and leaves the cache map as it is, at its
\* start and at its completion, whatever the TTL; a get() of another path
\* returns the cached value when it finds one, issues the upstream request
\* otherwise, and then stores the response under the url.
C11_SelectiveBypass ==
    [][\A s \in Callers :
        /\ (StartsGet(s) /\ glast'.path.php = "/lookupteam.php")
              => /\ glast'.event = "sent" /\ calls'[s].pc = "await"
                 /\ cache' = cache
        /\ (ResumesGet(s) /\ glast'.path.php = "/lookupteam.php") => cache' = cache
        /\ (StartsGet(s) /\ glast'.path.php # "/lookupteam.php")
              => LET url == Url(glast'.path)
                 IN  IF Live(url) /\ cache[url].value # Null
                     THEN /\ glast'.event = "hit" /\ glast'.ret = cache[url].value
                          /\ calls' = calls /\ cache' = cache
                     ELSE glast'.event = "sent" /\ calls'[s].pc = "await"
        /\ (ResumesGet(s) /\ glast'.path.php # "/lookupteam.php")
              => LET url == Url(glast'.path)
                 IN  url \in DOMAIN cache' /\ cache'[url].value = glast'.ret
    ]_vars

\* C11 witness: a team lookup called with a positive TTL has fetched its
\* response and the cache holds an entry for the other path only
C11_Witness ==
    /\ glast.event = "fetched" /\ glast.path = LookupTeam /\ glast.ttl > 0
    /\ glast.ret = "a"
    /\ DOMAIN cache = {Url(EventsSeason)}

\* C12: a get() of a cacheable url that is not in the cache issues an
\* upstream request also while another call awaits the same url; each call,
\* when its response arrives, stores it with expiresAt = now + its TTL*1000,
\* replacing what the other call stored, returns that response and leaves
\* the other call waiting.
C12_BothMissBothStore ==
    [][\A s \in Callers :
        /\ (StartsGet(s) /\ shouldCache(glast'.path) /\ Url(glast'.path) \notin DOMAIN cache)
              => /\ glast'.event = "sent"
                 /\ calls'[s].pc = "await"
                 /\ Url(glast'.path) \notin DOMAIN cache'
        /\ (ResumesGet(s) /\ shouldCache(glast'.path))
              => /\ cache'[Url(glast'.path)] =
                        [value |-> glast'.ret,
                         expiresAt |-> now + calls[s].ttl * MsPerSec]
                 /\ \A o \in Callers \ {s} : calls'[o].pc = calls[o].pc
    ]_vars

\* C12 witness: of two calls that both started while the url was missing the
\* second to complete has replaced the other's response "a" by its own "b"
C12_Witness ==
    /\ glast.event = "fetched" /\ glast.raced /\ glast.path = EventsSeason
    /\ glast.over = "a" /\ glast.ret = "b"
    /\ cache[Url(EventsSeason)].value = "b"
    /\ cache[Url(EventsSeason)].expiresAt = now + glast.ttl * MsPerSec
    /\ \A s \in Callers : calls[s].pc = "idle"

\* C17: a get() of a cacheable path that starts while the cache holds an
\* entry for its url that has not expired returns the stored response and
\* issues no upstream request.
C17_StoredResponseServed ==
    [][\A s \in Callers :
        (StartsGet(s) /\ shouldCache(glast'.path) /\ Live(Url(glast'.path)))
            => /\ glast'.event = "hit"
               /\ glast'.ret = cache[Url(glast'.path)].value
               /\ calls'[s].pc = "idle"
    ]_vars


\* the case of C14 in a response r: the client follows two ids, the handler
\* met exactly one team for which every call it made failed, and every other
\* team it met had all its calls succeed
PartialFailure(r) ==
    /\ Len(r.ids) = 2
    /\ Cardinality({i \in DOMAIN r.outs : r.outs[i] = "failed"}) = 1
    /\ \A i \in DOMAIN r.outs : r.outs[i] \in {"ok", "failed"}

\* C14: for a client following two team ids where every upstream call for one
\* team fails and the calls for the other succeed, /me/feed and /me/schedule
\* each answer with HTTP success and exactly two entries in followed order,
\* a real entry for the team that succeeded and a placeholder for the other.
C14_PartialAggregation ==
    (resp.route \in {"GET /me/feed", "GET /me/schedule"} /\ PartialFailure(resp)) =>
        /\ resp.status = "200"
        /\ Len(resp.items) = 2
        /\ \A i \in 1..2 :
              resp.items[i] = IF resp.outs[i] = "ok" THEN Real(resp.ids[i])
                              ELSE Placeholder(resp.ids[i])

\* C15: every follow-state route called without a client identifier header
\* answers with status 400 and an explanatory message, performs no store read
\* or write, and leaves the persisted state of every client unchanged.
C15_MissingClientId ==
    [][(resp' # resp /\ resp'.route \in FollowRoutes /\ resp'.header = None) =>
          /\ resp'.status = "400"
          /\ resp'.error # None
          /\ ~resp'.store
          /\ file' = file]_vars

====
